---- MODULE Spec2Model ----
(***************************************************************************)
(* Job orchestration core of the PostgreSQL backup & restore tool:         *)
(*   BackupManager   (src/src/core/backup.py)                              *)
(*   RestoreManager  (src/src/core/restore.py)                             *)
(*   BackupScheduler (src/src/core/scheduler.py)                           *)
(*                                                                         *)
(* All coroutines run on one asyncio event loop, so an action of the model *)
(* is the code between two suspension points (an await that really yields: *)
(* a database probe, a subprocess, asyncio.sleep).  The external tools     *)
(* (pg_dump, pg_restore, psql) are processes of the environment.           *)
(***************************************************************************)
EXTENDS Integers, Sequences, FiniteSets, TLC

VARIABLES
    active_backups,       \* BackupManager.active_backups: job id -> result
    progress_callbacks,   \* BackupManager.progress_callbacks: job id -> callback
    bexec,                \* one record per create_backup execution
    bresult,              \* the BackupResult each execution created
    files,                \* the backup files on disk: path -> content
    target_db,            \* the target database of the restores
    now_s,                \* int(time.time()) at the last restore_backup call
    active_restores,      \* RestoreManager.active_restores: restore id -> result
    restore_callbacks,    \* RestoreManager.progress_callbacks
    rexec,                \* one record per restore_backup execution
    rresult,              \* the RestoreResult each execution created
    clock,                \* datetime.now() of the scheduler's last due-check
    due,                  \* what _should_run_job answered in that check
    running,              \* BackupScheduler.running
    loop,                 \* where the task of _scheduler_loop stands
    runs,                 \* one record per _run_job task, in launch order
    job_history,          \* BackupScheduler.job_history
    unwinding,            \* cancelled loop tasks that have not resumed yet
    mon,                  \* one execution of a progress monitor
    io,                   \* one external tool, its pipes and who serves them
    conf                  \* one ConfigManager: its inputs and what it loaded

backupVars == <<active_backups, progress_callbacks, bexec, bresult, files>>

restoreVars == <<target_db, now_s, active_restores, restore_callbacks,
                 rexec, rresult>>

schedVars == <<clock, due, running, loop, runs, job_history, unwinding>>

monVars == <<mon>>

ioVars == <<io>>

confVars == <<conf>>

nonBackupVars == <<restoreVars, schedVars, monVars, ioVars, confVars>>

nonRestoreVars == <<backupVars, schedVars, monVars, ioVars, confVars>>

vars == <<backupVars, restoreVars, schedVars, monVars, ioVars, confVars>>

\* ------------------------------------------------------------------ bounds
\* create_backup executions in one behaviour
MaxBackups == 2

BackupExecs == 1..MaxBackups

\* restore_backup executions in one behaviour
MaxRestores == 2

RestoreExecs == 1..MaxRestores

\* ------------------------------------------------------------ data model
BackupType == {"full", "incremental", "differential"}

CompressionType == {"none", "gzip", "bzip2", "lz4"}

Terminal == {"completed", "failed", "cancelled"}

JobIds == {"j1", "j2"}

\* parallel_jobs values: the validator admits every value >= 1
ParallelJobs == {1, 2, 4}

Job(id, name, par, comp, type) ==
    [id |-> id, name |-> name, parallel_jobs |-> par, compression |-> comp,
     backup_type |-> type]

\* every job configuration (one id, one name)
AllJobs ==
    {Job("j1", "db", p, c, t) : p \in ParallelJobs, c \in CompressionType,
                                 t \in {"full", "incremental"}}

\* two jobs with different ids: the defaults of BackupConfig (gzip, 4
\* parallel jobs) and a single-threaded uncompressed job
ConfiguredJobs ==
    {Job("j1", "db", 4, "gzip", "full"),
     Job("j2", "crm", 1, "none", "full")}

\* the explored runs: any number of executions of the two jobs above (each
\* may run several times at once), or one execution of a job of any
\* configuration
ExploredJobs(started, job) ==
    \/ started = {}
    \/ started \cup {job} \subseteq ConfiguredJobs

\* stderr texts of a failing tool
StderrTexts == {"connection refused", "permission denied"}

NoJob == Job("", "", 1, "none", "full")

\* ---------------------------------------------------------------- paths
\* A path is its stem (the "_"-separated parts of the name before the first
\* dot) and its "."-separated suffix chain: db_20240101_1.tar.gz is
\* [stem |-> <<"db", "20240101", "1">>, suffixes |-> <<"tar", "gz">>].
Path(stem, suffixes) == [stem |-> stem, suffixes |-> suffixes]

\* pathlib's PurePath.suffix: the last dot-separated component only
Suffix(p) ==
    IF Len(p.suffixes) = 0 THEN <<>> ELSE <<p.suffixes[Len(p.suffixes)]>>

\* pathlib's PurePath.with_suffix: the last component is replaced (appended
\* when the name has none)
With_suffix(p, sfx) ==
    IF Len(p.suffixes) = 0
    THEN Path(p.stem, sfx)
    ELSE Path(p.stem, SubSeq(p.suffixes, 1, Len(p.suffixes) - 1) \o sfx)

\* strftime("%Y%m%d_%H%M%S") of the start of execution e
Timestamp(e) == <<"20240101", ToString(e)>>

_get_backup_file_path(job, e) == Path(<<job.name>> \o Timestamp(e), <<>>)

\* ------------------------------------------------------------- registry
Put(reg, id, v) == (id :> v) @@ reg

Del(reg, id) == [x \in (DOMAIN reg) \ {id} |-> reg[x]]

\* ------------------------------------------------------- backup executor
NewResult ==
    [status |-> "running", end_time |-> "none", error_message |-> <<>>,
     backup_file |-> "none", checksum |-> FALSE, size_bytes |-> FALSE]

\* the frame of one create_backup execution: strategy lists the pg_dump
\* launches, returncode / stderr are what the launch ended with (-1: none)
IdleExec ==
    [pc |-> "idle", job |-> NoJob, strategy |-> <<>>, final_file |-> "none",
     returncode |-> -1, stderr |-> "", returned |-> "none"]

\* an execution between its call and its return
BackupInFlight(e) == bexec[e].pc \notin {"idle", "done"}

RestoreIdle == \A r \in RestoreExecs : rexec[r].pc = "idle"

\* fault variant: "or" in place of "and"
UsesDirectoryStrategyEither(job) ==
    job.parallel_jobs > 1 \/ job.compression # "none"

\* _create_full_backup: the strategy is a function of the configuration
UsesDirectoryStrategy(job) ==
    job.parallel_jobs > 1 /\ job.compression # "none"

\* the final artifact of _create_parallel_backup
ParallelFinalFile(job, backup_file) ==
    IF job.compression = "gzip" THEN With_suffix(backup_file, <<"tar", "gz">>)
    ELSE IF job.compression = "bzip2"
         THEN With_suffix(backup_file, <<"tar", "bz2">>)
         ELSE With_suffix(backup_file, <<"tar">>)

\* the --file target of _create_custom_backup
CustomFinalFile(job, backup_file) ==
    IF job.compression = "gzip" THEN With_suffix(backup_file, <<"dump", "gz">>)
    ELSE IF job.compression = "bzip2"
         THEN With_suffix(backup_file, <<"dump", "bz2">>)
         ELSE With_suffix(backup_file, <<"dump">>)

\* the classes raised inside the operations; all derive from Exception
ExceptionClasses == {"RuntimeError", "ValueError", "OSError"}

\* fault variant: "except RuntimeError" in place of "except Exception"
CaughtRuntimeErrorOnly(kind) == kind = "RuntimeError"

\* "except Exception as e" of create_backup / restore_backup
Caught(kind) == kind \in ExceptionClasses

\* fault variant: the finally clause left out
CleanupSkipped(reg, id) == reg

\* the finally clause of create_backup / restore_backup on one registry
Cleanup(reg, id) == IF id \in DOMAIN reg THEN Del(reg, id) ELSE reg

\* the except clause of create_backup
BackupFailed(res, msg) ==
    [res EXCEPT !.status = "failed", !.error_message = msg,
                !.end_time = "create_backup"]

\* lines 74-88 of create_backup
BackupCompleted(res, final) ==
    [res EXCEPT !.status = "completed", !.backup_file = final,
                !.end_time = "create_backup", !.size_bytes = TRUE,
                !.checksum = TRUE]

\* create_backup is left through its finally clause with frame rec and
\* result res; returned: "result" (return result) or "raised"
BackupLeave(e, rec, res, returned) ==
    /\ bresult' = [bresult EXCEPT ![e] = res]
    /\ bexec' = [bexec EXCEPT ![e] =
           [rec EXCEPT !.pc = "done", !.returned = returned]]
    /\ active_backups' = Cleanup(active_backups, rec.job.id)
    /\ progress_callbacks' = Cleanup(progress_callbacks, rec.job.id)

BackupReturn(e, rec, res) == BackupLeave(e, rec, res, "result")

\* an exception of class kind with text msg is raised inside the try
\* block; res is the result object of the execution
BackupRaise(e, rec, res, kind, msg) ==
    IF Caught(kind)
    THEN BackupReturn(e, rec, BackupFailed(res, msg))
    ELSE BackupLeave(e, rec, res, "raised")

\* create_backup, lines 44-59: the result is registered, then the
\* coroutine suspends in get_database_info
BackupStart(e, job, cb) ==
    /\ bexec[e].pc = "idle"
    /\ \A d \in BackupExecs : d < e => bexec[d].pc # "idle"
    /\ RestoreIdle
    /\ ExploredJobs({bexec[d].job : d \in {x \in BackupExecs : bexec[x].pc # "idle"}},
                    job)
    /\ bexec' = [bexec EXCEPT ![e].pc = "probe", ![e].job = job]
    /\ bresult' = [bresult EXCEPT ![e] = NewResult]
    /\ active_backups' = Put(active_backups, job.id, e)
    /\ progress_callbacks' =
           IF cb THEN Put(progress_callbacks, job.id, e) ELSE progress_callbacks
    /\ UNCHANGED <<files, nonBackupVars>>

\* create_backup, lines 59-72, up to the start of pg_dump: the probe has
\* returned (it never raises); mkdir of the backup directory or the spawn
\* of pg_dump may raise.  pg_dump writes to final_file (custom format) or
\* into a TemporaryDirectory that is removed when the strategy is left
\* (directory format).
BackupLaunch(e, outcome) ==
    LET job == bexec[e].job
        backup_file == _get_backup_file_path(job, e)
        chosen == IF UsesDirectoryStrategy(job) THEN "directory" ELSE "custom"
        launched == [bexec[e] EXCEPT
                        !.strategy = Append(@, chosen),
                        !.final_file = IF chosen = "directory"
                                       THEN ParallelFinalFile(job, backup_file)
                                       ELSE CustomFinalFile(job, backup_file)]
    IN  /\ bexec[e].pc = "probe"
        /\ IF outcome = "mkdir_error"
           THEN BackupRaise(e, bexec[e], bresult[e], "OSError", <<"mkdir failed">>)
           ELSE IF job.backup_type # "full"
           THEN BackupRaise(e, bexec[e], bresult[e], "ValueError",
                            <<"Backup type not yet implemented", job.backup_type>>)
           ELSE IF outcome = "spawn_error"
           THEN BackupRaise(e, launched, bresult[e], "OSError",
                            <<"pg_dump not found">>)
           ELSE /\ bexec' = [bexec EXCEPT ![e] = [launched EXCEPT !.pc = "dump"]]
                /\ UNCHANGED <<bresult, active_backups, progress_callbacks>>
        /\ UNCHANGED <<files, nonBackupVars>>

\* what pg_dump leaves at its --file target: with exit code 0 the complete
\* dump, otherwise nothing or a part of it (wrote)
DumpOutput(code, wrote, format) ==
    IF code = 0 THEN format ELSE IF wrote THEN "partial" ELSE "none"

\* fault variant: the return code is not looked at
ToolFailedIgnored(returncode) == FALSE

\* "if process.returncode != 0" after pg_dump, pg_restore and psql
ToolFailed(returncode) == returncode # 0

\* pg_dump has run and exited with code (stderr err), the monitor loop has
\* seen the return code: the rest of _create_parallel_backup /
\* _create_custom_backup, then create_backup lines 74-105.  outcome: "ok",
\* "tar_error" (writing the archive raises), "checksum_error" (reading the
\* artifact raises) or "stat_error" (the stat of the artifact raises).
BackupFinish(e, code, err, wrote, outcome) ==
    LET job == bexec[e].job
        final == bexec[e].final_file
        directory == bexec[e].strategy = <<"directory">>
        out == DumpOutput(code, wrote, IF directory THEN "directory" ELSE "custom")
        \* the custom format is written to the final file by pg_dump itself
        dumped == IF directory \/ out = "none" THEN files
                  ELSE Put(files, final, out)
        rec == [bexec[e] EXCEPT !.returncode = code,
                                !.stderr = IF code # 0 THEN err ELSE ""]
    IN  /\ bexec[e].pc = "dump"
        /\ IF ToolFailed(code)
           THEN /\ BackupRaise(e, rec, bresult[e], "RuntimeError",
                                <<"pg_dump failed", err>>)
                /\ files' = dumped
           ELSE IF directory /\ outcome = "tar_error"
           THEN /\ BackupRaise(e, rec, bresult[e], "OSError", <<"tar failed">>)
                /\ files' = Put(dumped, final, "partial")
           ELSE /\ files' = IF directory THEN Put(dumped, final, "directory")
                             ELSE dumped
                /\ IF outcome = "checksum_error"
                   THEN BackupRaise(e, rec, bresult[e], "OSError",
                                    <<"checksum failed">>)
                   ELSE IF outcome = "stat_error"
                   THEN \* lines 78-80 have run when stat() raises
                        BackupRaise(e, rec,
                            [bresult[e] EXCEPT !.backup_file = final],
                            "OSError", <<"stat failed">>)
                   ELSE /\ outcome = "ok"
                        /\ BackupReturn(e, rec, BackupCompleted(bresult[e], final))
        /\ UNCHANGED nonBackupVars

\* what cancel_backup(job_id) / cancel_restore(restore_id) returns
CancelReturns(reg, id) == id \in DOMAIN reg

\* fault variant: the progress callback is left registered
CancelBackupKeepsCallback(id) ==
    /\ IF id \in DOMAIN active_backups
       THEN /\ bresult' = [bresult EXCEPT
                   ![active_backups[id]].status = "cancelled",
                   ![active_backups[id]].end_time = "cancel_backup"]
            /\ active_backups' = Del(active_backups, id)
            /\ UNCHANGED progress_callbacks
       ELSE UNCHANGED <<bresult, active_backups, progress_callbacks>>
    /\ UNCHANGED <<bexec, files, nonBackupVars>>

\* cancel_backup(job_id)
CancelBackup(id) ==
    /\ IF id \in DOMAIN active_backups
       THEN /\ bresult' = [bresult EXCEPT
                   ![active_backups[id]].status = "cancelled",
                   ![active_backups[id]].end_time = "cancel_backup"]
            /\ active_backups' = Del(active_backups, id)
            /\ progress_callbacks' =
                   IF id \in DOMAIN progress_callbacks
                   THEN Del(progress_callbacks, id) ELSE progress_callbacks
       ELSE UNCHANGED <<bresult, active_backups, progress_callbacks>>
    /\ UNCHANGED <<bexec, files, nonBackupVars>>

\* ------------------------------------------------------ restore executor
\* the suffix lists of _verify_backup_file and _get_backup_info, as written
CustomSuffixes == {<<"dump">>, <<"dump", "gz">>, <<"dump", "bz2">>}

TarSuffixes == {<<"tar">>, <<"tar", "gz">>, <<"tar", "bz2">>}

SqlSuffixes == {<<"sql">>, <<"sql", "gz">>}

\* the branch of _verify_backup_file a file takes:
\* backup_file.suffix in [...] compares the last component with each entry
VerifyBranch(p) ==
    IF Suffix(p) \in CustomSuffixes THEN "custom"
    ELSE IF Suffix(p) \in TarSuffixes THEN "directory"
    ELSE IF Suffix(p) \in SqlSuffixes THEN "sql"
    ELSE "none"

\* backup_info.get("format") of _get_backup_info: the same suffix tests
BackupInfoFormat(p) ==
    IF Suffix(p) \in CustomSuffixes THEN "custom"
    ELSE IF Suffix(p) \in TarSuffixes THEN "directory"
    ELSE IF Suffix(p) \in SqlSuffixes THEN "sql"
    ELSE "none"

\* the explored runs: any number of restores of backup.dump or of a file
\* that does not exist, or one restore of any file
ExploredFiles(started, path) ==
    \/ started = {}
    \/ started \cup {path} \subseteq
           {Path(<<"backup">>, <<"dump">>), Path(<<"missing">>, <<"dump">>)}

NewRestoreResult ==
    [status |-> "running", end_time |-> "none", error_message |-> <<>>,
     verification_passed |-> FALSE]

NoPath == Path(<<>>, <<>>)

\* the frame of one restore_backup execution: branch is the branch of
\* _verify_backup_file taken, format the format of _get_backup_info, log
\* the steps that have returned, each with its answer
IdleRestore ==
    [pc |-> "idle", file |-> NoPath, id |-> 0, branch |-> "none",
     format |-> "none", log |-> <<>>, returncode |-> -1, stderr |-> "",
     warned |-> FALSE, returned |-> "none"]

\* step has returned ok: one entry of the log
Step(step, ok) == [step |-> step, ok |-> ok]

Logged(rec, step, ok) == [rec EXCEPT !.log = Append(@, Step(step, ok))]

RestoreInFlight(r) == rexec[r].pc \notin {"idle", "done"}

BackupIdle == \A e \in BackupExecs : bexec[e].pc = "idle"

\* the except clause of restore_backup
RestoreFailed(res, msg) ==
    [res EXCEPT !.status = "failed", !.error_message = msg,
                !.end_time = "restore_backup"]

\* lines 91-95 of restore_backup
RestoreCompleted(res, verification_passed) ==
    [res EXCEPT !.status = "completed", !.end_time = "restore_backup",
                !.verification_passed = verification_passed]

\* restore_backup is left through its finally clause with frame rec and
\* result res; regA and regC are the registries before the finally clause
RestoreLeave(r, rec, res, regA, regC, returned) ==
    /\ rresult' = [rresult EXCEPT ![r] = res]
    /\ rexec' = [rexec EXCEPT ![r] =
           [rec EXCEPT !.pc = "done", !.returned = returned]]
    /\ active_restores' = Cleanup(regA, rec.id)
    /\ restore_callbacks' = Cleanup(regC, rec.id)

RestoreReturn(r, rec, res, regA, regC) ==
    RestoreLeave(r, rec, res, regA, regC, "result")

\* an exception of class kind with text msg is raised inside the try
\* block; res is the result object of the execution
RestoreRaise(r, rec, res, kind, msg, regA, regC) ==
    IF Caught(kind)
    THEN RestoreReturn(r, rec, RestoreFailed(res, msg), regA, regC)
    ELSE RestoreLeave(r, rec, res, regA, regC, "raised")

\* restore_backup suspends at pc with frame rec
RestoreSuspend(r, rec, pc) ==
    /\ rexec' = [rexec EXCEPT ![r] = [rec EXCEPT !.pc = pc]]
    /\ UNCHANGED <<rresult, active_restores, restore_callbacks>>

\* restore_backup, lines 44-64, up to its first suspension.  The id is the
\* second of the call: a call in the same second as the previous one gets
\* the same id.  A missing file, an unlisted suffix or an unreadable tar
\* fails the verification without a suspension; a custom-format file waits
\* for pg_restore --list.
RestoreStart(r, path, cb, t) ==
    LET rec == [IdleRestore EXCEPT !.file = path, !.id = t,
                                   !.branch = VerifyBranch(path)]
        regA == Put(active_restores, t, r)
        regC == IF cb THEN Put(restore_callbacks, t, r) ELSE restore_callbacks
        refused == RestoreRaise(r, Logged(rec, "verify", FALSE), NewRestoreResult,
                       "RuntimeError", <<"Backup file verification failed">>,
                       regA, regC)
    IN  /\ rexec[r].pc = "idle"
        /\ \A d \in RestoreExecs : d < r => rexec[d].pc # "idle"
        /\ BackupIdle
        /\ t \in (IF r = 1 THEN {now_s} ELSE {now_s, now_s + 1})
        /\ now_s' = t
        /\ ExploredFiles({rexec[d].file :
                             d \in {x \in RestoreExecs : rexec[x].pc # "idle"}}, path)
        /\ IF path \notin DOMAIN files \/ VerifyBranch(path) = "none"
           THEN refused
           ELSE IF VerifyBranch(path) = "custom"
           THEN /\ rexec' = [rexec EXCEPT ![r] = [rec EXCEPT !.pc = "verify"]]
                /\ rresult' = [rresult EXCEPT ![r] = NewRestoreResult]
                /\ active_restores' = regA
                /\ restore_callbacks' = regC
           ELSE IF files[path] # VerifyBranch(path)
           THEN \* a tar that cannot be opened, a SQL file that cannot be read
                refused
           ELSE \* tar or SQL file that can be read: _get_backup_info, then
                \* the coroutine waits for database_exists
                /\ rexec' = [rexec EXCEPT ![r] =
                       [Logged(rec, "verify", TRUE) EXCEPT
                           !.pc = "probe", !.format = BackupInfoFormat(path)]]
                /\ rresult' = [rresult EXCEPT ![r] = NewRestoreResult]
                /\ active_restores' = regA
                /\ restore_callbacks' = regC
        /\ UNCHANGED <<target_db, nonRestoreVars>>

\* _verify_backup_file: pg_restore --list has exited (listed: with 0); on
\* success _get_backup_info starts pg_restore --list again
RestoreVerified(r, listed) ==
    /\ rexec[r].pc = "verify"
    /\ listed => files[rexec[r].file] = "custom"
    /\ IF listed
       THEN RestoreSuspend(r, Logged(rexec[r], "verify", TRUE), "info")
       ELSE RestoreRaise(r, Logged(rexec[r], "verify", FALSE), rresult[r],
                "RuntimeError", <<"Backup file verification failed">>,
                active_restores, restore_callbacks)
    /\ UNCHANGED <<target_db, now_s, nonRestoreVars>>

\* _get_custom_backup_info has returned; the coroutine waits for
\* database_exists
RestoreInfo(r) ==
    /\ rexec[r].pc = "info"
    /\ RestoreSuspend(r, [rexec[r] EXCEPT
                             !.format = BackupInfoFormat(rexec[r].file)], "probe")
    /\ UNCHANGED <<target_db, now_s, nonRestoreVars>>

\* database_exists has returned (False also when the probe itself failed);
\* _handle_existing_database calls drop_database, else create_database
RestoreProbed(r, exists) ==
    /\ rexec[r].pc = "probe"
    /\ exists => target_db = "exists"
    /\ RestoreSuspend(r, Logged(rexec[r], "probe", exists),
                      IF exists THEN "drop" ELSE "create")
    /\ UNCHANGED <<target_db, now_s, nonRestoreVars>>

\* fault variant: a failed drop_database does not end the restore
RestoreDroppedIgnoringFailure(r, ok) ==
    /\ rexec[r].pc = "drop"
    /\ target_db' = IF ok THEN "absent" ELSE target_db
    /\ RestoreSuspend(r, Logged(rexec[r], "drop", ok), "create")
    /\ UNCHANGED <<now_s, nonRestoreVars>>

\* drop_database has returned; on success create_database is called
RestoreDropped(r, ok) ==
    /\ rexec[r].pc = "drop"
    /\ IF ok
       THEN /\ target_db' = "absent"
            /\ RestoreSuspend(r, Logged(rexec[r], "drop", TRUE), "create")
       ELSE /\ UNCHANGED target_db
            /\ RestoreRaise(r, Logged(rexec[r], "drop", FALSE), rresult[r],
                   "RuntimeError", <<"Restore cancelled by user">>,
                   active_restores, restore_callbacks)
    /\ UNCHANGED <<now_s, nonRestoreVars>>

\* create_database has returned; on success the restore is dispatched on
\* the format.  launch: "ok", or "spawn_error" (extracting the archive or
\* starting pg_restore / psql raises).
RestoreCreated(r, ok, launch) ==
    LET rec == Logged(rexec[r], "create", ok)
    IN  /\ rexec[r].pc = "create"
        /\ ok => target_db = "absent"
        /\ IF ~ok
           THEN /\ UNCHANGED target_db
                /\ RestoreRaise(r, rec, rresult[r], "RuntimeError",
                       <<"Failed to create database">>,
                       active_restores, restore_callbacks)
           ELSE /\ target_db' = "exists"
                /\ IF rexec[r].format \notin {"custom", "directory", "sql"}
                   THEN RestoreRaise(r, rec, rresult[r], "RuntimeError",
                            <<"Unsupported backup format", rexec[r].format>>,
                            active_restores, restore_callbacks)
                   ELSE IF launch = "spawn_error"
                   THEN RestoreRaise(r, rec, rresult[r], "OSError",
                            <<"spawn failed">>,
                            active_restores, restore_callbacks)
                   ELSE RestoreSuspend(r, rec, "tool")
        /\ UNCHANGED <<now_s, nonRestoreVars>>

\* pg_restore / psql has run and exited with code (stderr err): the rest
\* of _restore_*_format; on success the coroutine waits for
\* get_database_info in _verify_restoration
RestoreAfterTool(r, code, err) ==
    LET rec == [Logged(rexec[r], "tool", code = 0) EXCEPT
                   !.returncode = code,
                   !.stderr = IF code # 0 THEN err ELSE ""]
    IN  /\ rexec[r].pc = "tool"
        /\ IF ToolFailed(code)
           THEN RestoreRaise(r, rec, rresult[r], "RuntimeError",
                    <<IF rexec[r].format = "sql" THEN "psql failed"
                      ELSE "pg_restore failed", err>>,
                    active_restores, restore_callbacks)
           ELSE RestoreSuspend(r, rec, "postverify")
        /\ UNCHANGED <<target_db, now_s, nonRestoreVars>>

\* the table counts of the examples: tables_count of the backup (0 when
\* the file does not tell) and table_count of the restored database
TableCounts == {0, 8, 9, 10}

\* the test of _verify_restoration that logs "Table count mismatch"
Mismatch(backup_tables, current_tables) ==
    backup_tables > 0 /\ current_tables * 10 < backup_tables * 9

\* fault variant: a table count mismatch fails the verification
_verify_restoration_strict(answered, backup_tables, current_tables) ==
    answered /\ ~Mismatch(backup_tables, current_tables)

\* _verify_restoration: False when get_database_info returned nothing (it
\* returns {} when the target cannot be queried); a mismatch of the table
\* counts is logged and the answer is True
_verify_restoration(answered, backup_tables, current_tables) ==
    IF ~answered THEN FALSE
    ELSE IF Mismatch(backup_tables, current_tables) THEN TRUE
    ELSE TRUE

\* get_database_info has returned in _verify_restoration (answered: with
\* the database's data, current_tables among them); restore_backup lines
\* 88-112.  backup_tables is tables_count of the backup's info.
RestorePostVerified(r, answered, backup_tables, current_tables) ==
    /\ rexec[r].pc = "postverify"
    /\ RestoreReturn(r, [Logged(rexec[r], "postverify", answered) EXCEPT
                            !.warned = answered /\ Mismatch(backup_tables,
                                                            current_tables)],
                     RestoreCompleted(rresult[r],
                         _verify_restoration(answered, backup_tables,
                                             current_tables)),
                     active_restores, restore_callbacks)
    /\ UNCHANGED <<target_db, now_s, nonRestoreVars>>

\* cancel_restore(restore_id)
CancelRestore(id) ==
    /\ IF id \in DOMAIN active_restores
       THEN /\ rresult' = [rresult EXCEPT
                   ![active_restores[id]].status = "cancelled",
                   ![active_restores[id]].end_time = "cancel_restore"]
            /\ active_restores' = Del(active_restores, id)
            /\ restore_callbacks' =
                   IF id \in DOMAIN restore_callbacks
                   THEN Del(restore_callbacks, id) ELSE restore_callbacks
       ELSE UNCHANGED <<rresult, active_restores, restore_callbacks>>
    /\ UNCHANGED <<target_db, now_s, rexec, nonRestoreVars>>

\* ------------------------------------------------------------ scheduler
\* the clock counts the seconds from a midnight (day 0, 00:00:00)
Day == 24 * 60 * 60

\* the time h:m:s of day d
At(d, h, m, s) == d * Day + h * 3600 + m * 60 + s

\* asyncio.sleep(60) of _scheduler_loop
SleepSeconds == 60

\* the window of _should_run_job, in seconds
DueWindow == 60

\* the scheduler runs to 03:00 of day MaxDays
MaxDays == 1

\* a tick takes up to MaxLag seconds on top of the sleep
MaxLag == 1

\* a scheduled job; schedule is <<>> (none), <<minute, hour>> for the cron
\* expression "minute hour * * *", or a text croniter does not parse
ScheduledJob(id, schedule, enabled) ==
    [id |-> id, schedule |-> schedule, enabled |-> enabled]

\* croniter(schedule, now).get_next(datetime) for "minute hour * * *": the
\* first fire time strictly after now
get_next(schedule, now) ==
    LET today == At(now \div Day, schedule[2], schedule[1], 0)
    IN  IF today > now THEN today ELSE today + Day

\* fault variant: due in the minute that follows the fire time
_should_run_job_after_fire(job, now) ==
    /\ Len(job.schedule) = 2
    /\ LET time_diff == now - (get_next(job.schedule, now) - Day)
       IN  0 <= time_diff /\ time_diff <= DueWindow

\* fault variant: the bound of 60 seconds is excluded
_should_run_job_below_window(job, now) ==
    /\ Len(job.schedule) = 2
    /\ LET time_diff == get_next(job.schedule, now) - now
       IN  0 <= time_diff /\ time_diff < DueWindow

\* _should_run_job(job, now); croniter raises on a text it does not parse
_should_run_job(job, now) ==
    IF Len(job.schedule) = 0 THEN FALSE
    ELSE IF Len(job.schedule) # 2 THEN FALSE
    ELSE LET time_diff == get_next(job.schedule, now) - now
         IN  0 <= time_diff /\ time_diff <= DueWindow

\* scheduled_jobs: the job of the due-check example, daily at 02:00, a
\* second job of the same minute, one of the next minute, one whose schedule croniter does not
\* parse, and a disabled one of the same minute
DailyJob == ScheduledJob("daily", <<0, 2>>, TRUE)

NightlyJob == ScheduledJob("nightly", <<0, 2>>, TRUE)

\* a job of the next minute, 02:01
LateJob == ScheduledJob("late", <<1, 2>>, TRUE)

BrokenJob == ScheduledJob("broken", <<"every", "night", "at two">>, TRUE)

PausedJob == ScheduledJob("paused", <<0, 2>>, FALSE)

\* a job without a schedule (no such job passes add_job)
ManualJob == ScheduledJob("manual", <<>>, TRUE)

scheduled_jobs == {DailyJob, NightlyJob, LateJob, BrokenJob, PausedJob}

\* list(self.scheduled_jobs.values()): the jobs in the order of add_job
JobOrder == <<"broken", "daily", "paused", "nightly", "late">>

JobOf(id) == CHOOSE j \in scheduled_jobs : j.id = id

\* what run_job_now has returned: nothing yet, None, or a result
NoReturn == [done |-> FALSE, found |-> FALSE, result |-> 0]

Return(found, result) == [done |-> TRUE, found |-> found, result |-> result]

\* _run_job(job) called by caller: it waits in create_backup
RunOf(id, caller) ==
    [job |-> id, caller |-> caller, pc |-> "backup", status |-> "running",
     returned |-> NoReturn]

\* asyncio.create_task(self._run_job(job)) of the tick
NewRun(id) == RunOf(id, "tick")

\* fault variant: a schedule that does not parse ends the for loop
RECURSIVE _check_and_run_jobs_aborting(_, _)
_check_and_run_jobs_aborting(i, now) ==
    IF i > Len(JobOrder) THEN <<>>
    ELSE LET job == JobOf(JobOrder[i])
         IN  IF job.enabled /\ Len(job.schedule) \notin {0, 2} THEN <<>>
             ELSE (IF job.enabled /\ _should_run_job(job, now)
                   THEN <<NewRun(job.id)>> ELSE <<>>)
                  \o _check_and_run_jobs_aborting(i + 1, now)

\* the for loop of _check_and_run_jobs over the jobs from position i: the
\* tasks it creates, in order
RECURSIVE _check_and_run_jobs(_, _)
_check_and_run_jobs(i, now) ==
    IF i > Len(JobOrder) THEN <<>>
    ELSE LET job == JobOf(JobOrder[i])
         IN  (IF job.enabled /\ _should_run_job(job, now)
              THEN <<NewRun(job.id)>> ELSE <<>>)
             \o _check_and_run_jobs(i + 1, now)

\* one iteration of _scheduler_loop: _check_and_run_jobs reads the clock
\* and asks _should_run_job for every enabled job; the first iteration
\* runs when the scheduler starts, each later one SleepSeconds (and the
\* time the iteration took, lag) after the one before
SchedulerTick(lag) ==
    LET now == IF loop = "ready" THEN clock ELSE clock + SleepSeconds + lag
    IN  /\ running
        /\ loop \in {"ready", "sleeping"}
        /\ now < At(MaxDays, 3, 0, 0)
        /\ clock' = now
        /\ due' = [id \in {j.id : j \in {x \in scheduled_jobs : x.enabled}} |->
                      _should_run_job(JobOf(id), now)]
        /\ runs' = runs \o _check_and_run_jobs(1, now)
        /\ loop' = "sleeping"
        /\ UNCHANGED <<backupVars, restoreVars, monVars, ioVars, confVars, running, job_history,
                       unwinding>>

\* start(): nothing when already running; else the loop task is created
SchedulerStart ==
    /\ ~running
    /\ running' = TRUE
    /\ loop' = "ready"
    /\ UNCHANGED <<backupVars, restoreVars, monVars, ioVars, confVars, clock, due, runs,
                   job_history, unwinding>>

\* the cancelled loop tasks that have not resumed, after stop(); awaited:
\* the cancelled task resumes, and stop() returns, before any other call
Cancelled(awaited) ==
    IF loop \in {"ready", "sleeping"} /\ ~awaited
    THEN unwinding + 1 ELSE unwinding

\* fault variant: stop() also cancels the runs in flight
SchedulerStopCancelsRuns(awaited) ==
    /\ running
    /\ running' = FALSE
    /\ loop' = IF loop = "none" THEN "none" ELSE "ended"
    /\ unwinding' = Cancelled(awaited)
    /\ runs' = [r \in 1..Len(runs) |->
                   IF runs[r].pc = "backup"
                   THEN [runs[r] EXCEPT !.pc = "cancelled", !.status = "cancelled"]
                   ELSE runs[r]]
    /\ UNCHANGED <<backupVars, restoreVars, monVars, ioVars, confVars, clock, due, job_history>>

\* stop(): nothing when not running; else running is set to False and the
\* loop task, which waits to run its first iteration or sleeps between
\* two, is cancelled; stop() then awaits it.  loop is the state of
\* self.scheduler_task, ended from its cancellation on.
SchedulerStop(awaited) ==
    /\ running
    /\ running' = FALSE
    /\ loop' = IF loop = "none" THEN "none" ELSE "ended"
    /\ unwinding' = Cancelled(awaited)
    /\ UNCHANGED <<backupVars, restoreVars, monVars, ioVars, confVars, clock, due, runs, job_history>>

\* fault variant: a cancelled loop task that finds running set again goes
\* on with its next iteration
LoopUnwindsUnlessRunning ==
    /\ unwinding > 0
    /\ unwinding' = unwinding - 1
    /\ runs' = IF running THEN runs \o _check_and_run_jobs(1, clock) ELSE runs
    /\ UNCHANGED <<backupVars, restoreVars, monVars, ioVars, confVars, clock, due, running, loop,
                   job_history>>

\* a cancelled loop task resumes: CancelledError is raised at its sleep
\* (or before its first step) and the task ends, whatever running is
LoopUnwinds ==
    /\ unwinding > 0
    /\ unwinding' = unwinding - 1
    /\ UNCHANGED <<backupVars, restoreVars, monVars, ioVars, confVars, clock, due, running, loop,
                   runs, job_history>>

\* ---------------------------------------------------------- job history
\* self.max_history
max_history == 1000

\* fault variant: the newest entries are cut off
_add_to_history_keeps_oldest(history, result) ==
    LET h == Append(history, result)
    IN  IF Len(h) > max_history THEN SubSeq(h, 1, max_history) ELSE h

\* _add_to_history: append, then keep the last max_history entries
_add_to_history(history, result) ==
    LET h == Append(history, result)
    IN  IF Len(h) > max_history
        THEN SubSeq(h, Len(h) - max_history + 1, Len(h))
        ELSE h

\* ------------------------------------------------------------ retention
\* BackupJob.retention_days, its default
RetentionDays == 30

\* the dates and times of day that occur in file names, as days from day 0
\* of the clock (2024-01-01) and seconds from midnight
DayNumber == ("20200101" :> -1461) @@ ("20231231" :> -1) @@ ("20240101" :> 0)

TimeOfDay == ("000000" :> 0) @@ ("020000" :> 7200)

\* backup_dir.glob(f"{job.name}_*"): the names that start with the job's
\* name and an underscore (a scheduled job is named by its id)
Glob(dir, job) ==
    {p \in DOMAIN dir : Len(p.stem) >= 2 /\ p.stem[1] = job.id}

\* backup_file.stem.split('_')[-1]: pathlib's stem is the name without its
\* last suffix; the text after its last underscore is the last part of the
\* name with the inner suffixes
Timestamp_str(p) ==
    [parts |-> <<p.stem[Len(p.stem)]>>,
     dots |-> IF Len(p.suffixes) = 0 THEN <<>>
              ELSE SubSeq(p.suffixes, 1, Len(p.suffixes) - 1)]

\* datetime.strptime(text, "%Y%m%d_%H%M%S"): a date, an underscore and a
\* time of day and nothing else, or ValueError
Strptime(text) ==
    IF /\ Len(text.parts) = 2
       /\ text.dots = <<>>
       /\ text.parts[1] \in DOMAIN DayNumber
       /\ text.parts[2] \in DOMAIN TimeOfDay
    THEN [ok |-> TRUE,
          value |-> DayNumber[text.parts[1]] * Day + TimeOfDay[text.parts[2]]]
    ELSE [ok |-> FALSE, value |-> 0]

\* fault variant: a name that does not parse is deleted too
UnlinkedOrUnparsed(file_date, cutoff_date) ==
    ~file_date.ok \/ file_date.value < cutoff_date

\* the body of the sweep's try: ValueError skips the file, an older date
\* unlinks it
Unlinked(file_date, cutoff_date) ==
    file_date.ok /\ file_date.value < cutoff_date

\* _handle_retention(job) on the directory dir at the time now
_handle_retention(dir, job, now) ==
    LET cutoff_date == now - RetentionDays * Day
        gone == {p \in Glob(dir, job) :
                    Unlinked(Strptime(Timestamp_str(p)), cutoff_date)}
    IN  [p \in (DOMAIN dir) \ gone |-> dir[p]]

\* the file a completed backup of run r leaves in the directory
RunFile(id, r) == Path(<<id>> \o Timestamp(r), <<"dump">>)

\* the ids of the scheduled jobs
ScheduledIds == {j.id : j \in scheduled_jobs}

\* run_job_now(job_id) up to its suspension in create_backup; for an id
\* that is not in scheduled_jobs it returns None at once.  runs holds one
\* record per _run_job task and per run_job_now call.
RunJobNow(id) ==
    /\ runs' = Append(runs,
                   IF id \in ScheduledIds
                   THEN RunOf(id, "run_job_now")
                   ELSE [RunOf(id, "run_job_now") EXCEPT
                            !.pc = "refused", !.status = "none",
                            !.returned = Return(FALSE, 0)])
    /\ UNCHANGED <<backupVars, restoreVars, monVars, ioVars, confVars, clock, due, running, loop,
                   job_history, unwinding>>

\* result.job_id of a result in the history: the results are named by the
\* number of their run, those of earlier runs (0 and below) are of job daily
Job_id(result) == IF result >= 1 THEN runs[result].job ELSE "daily"

RECURSIVE LastResultFrom(_, _, _)
\* the for loop of run_job_now over reversed(self.job_history), at entry i
LastResultFrom(history, i, id) ==
    IF i < 1 THEN Return(FALSE, 0)
    ELSE IF Job_id(history[i]) = id THEN Return(TRUE, history[i])
    ELSE LastResultFrom(history, i - 1, id)

\* fault variant: the search runs over the history from its oldest entry
FirstResultOf(history, id) ==
    IF \A i \in 1..Len(history) : Job_id(history[i]) # id
    THEN Return(FALSE, 0)
    ELSE Return(TRUE,
                history[CHOOSE i \in 1..Len(history) :
                            /\ Job_id(history[i]) = id
                            /\ \A k \in 1..(i - 1) : Job_id(history[k]) # id])

\* what run_job_now returns after _run_job: the last result of the job
LastResultOf(history, id) == LastResultFrom(history, Len(history), id)

\* _run_job(job) from the return of create_backup on, which has no
\* suspension point: the result is appended to the history and the
\* retention sweep runs; when create_backup raises, the except clause
\* appends a failed result and there is no sweep.  run_job_now, which
\* awaits _run_job as a coroutine, goes on in the same step and returns the
\* last result of the job in the history.
RunReturns(r, outcome) ==
    /\ r \in 1..Len(runs)
    /\ runs[r].pc = "backup"
    /\ job_history' = _add_to_history(job_history, r)
    /\ runs' = [runs EXCEPT ![r] =
                   [job |-> @.job,
                    caller |-> @.caller,
                    pc |-> IF outcome = "raised" THEN "raised" ELSE "returned",
                    status |-> IF outcome = "completed" THEN "completed"
                               ELSE "failed",
                    returned |-> IF @.caller = "run_job_now"
                                 THEN LastResultOf(job_history', @.job)
                                 ELSE NoReturn]]
    /\ files' = IF outcome = "raised" THEN files
                ELSE _handle_retention(
                         IF outcome = "completed"
                         THEN Put(files, RunFile(runs[r].job, r), "custom")
                         ELSE files,
                         JobOf(runs[r].job), clock)
    /\ UNCHANGED <<active_backups, progress_callbacks, bexec, bresult,
                   restoreVars, monVars, ioVars, confVars, clock, due, running, loop, unwinding>>

\* ----------------------------------------------------- progress monitor
\* _monitor_backup_process and _monitor_restore_process: one execution,
\* from its call to its return. The callback is the caller's, so the
\* sequence of its invocations is kept as updates.
Monitors == {"backup", "restore"}

\* the seconds a progress of 100% is assumed to take
Assumed(kind) == IF kind = "backup" THEN 300 ELSE 600

\* the messages of the call sites
Messages(kind) ==
    IF kind = "backup"
    THEN {"Creating parallel backup", "Creating custom backup"}
    ELSE {"Restoring custom format backup",
          "Restoring directory format backup", "Restoring SQL backup"}

IdleMonitor ==
    [pc |-> "idle", kind |-> "backup", message |-> "", given |-> FALSE,
     registered |-> FALSE, exited |-> FALSE, returncode |-> -1, polls |-> 0,
     elapsed |-> 0, updates |-> <<>>]

\* at most MaxPolls iterations of the monitor's loop
MaxPolls == 3

\* the seconds between two readings of time.time(): the sleep of one
\* second, or longer when the event loop is busy
Waits == {1, 150, 300}

\* fault variant: the estimate is not capped
ProgressUncapped(kind, elapsed) == (elapsed * 100) \div Assumed(kind)

\* min(95, (elapsed * 100) // 300), with 600 in the restore monitor
Progress(kind, elapsed) ==
    LET estimate == (elapsed * 100) \div Assumed(kind)
    IN  IF estimate < 95 THEN estimate ELSE 95

\* the operation registers the callback it was given and, the tool
\* started, calls the monitor; process.returncode is None then
MonitorCall(kind, message, given) ==
    /\ mon.pc = "idle"
    /\ mon' = [IdleMonitor EXCEPT !.pc = "sleeping", !.kind = kind,
                                  !.message = message, !.given = given,
                                  !.registered = given]
    /\ UNCHANGED <<backupVars, restoreVars, schedVars, ioVars, confVars>>

\* the operation registers the callback it was given and fails before its
\* tool is started (the directory cannot be made, the file does not
\* verify, the tool cannot be spawned): the monitor is not called
OperationFailsEarly(kind, given) ==
    /\ mon.pc = "idle"
    /\ mon' = [IdleMonitor EXCEPT !.pc = "returned", !.kind = kind,
                                  !.given = given, !.registered = given]
    /\ UNCHANGED <<backupVars, restoreVars, schedVars, ioVars, confVars>>

\* the tool exits while the monitor sleeps
ProcessExits(code) ==
    /\ mon.pc = "sleeping"
    /\ ~mon.exited
    /\ mon' = [mon EXCEPT !.exited = TRUE, !.returncode = code]
    /\ UNCHANGED <<backupVars, restoreVars, schedVars, ioVars, confVars>>

\* cancel_backup / cancel_restore while the monitor sleeps: the callback is
\* deleted from progress_callbacks, the tool is left running
MonitorCancel ==
    /\ mon.pc = "sleeping"
    /\ mon.kind \in Monitors
    /\ mon.registered
    /\ mon' = [mon EXCEPT !.registered = FALSE]
    /\ UNCHANGED <<backupVars, restoreVars, schedVars, ioVars, confVars>>

\* asyncio.sleep(1) returns: the estimate is reported to the callback if it
\* is registered; then the loop tests process.returncode, and after an
\* exit the final update is reported if the callback is registered
MonitorWake(wait) ==
    LET elapsed == mon.elapsed + wait
        estimate == <<Progress(mon.kind, elapsed), <<mon.message, elapsed, "s">>>>
        final == <<100, <<mon.message, "completed">>>>
    IN  /\ mon.pc = "sleeping"
        /\ mon.kind \in Monitors
        /\ mon.exited \/ mon.polls < MaxPolls
        /\ mon' = [mon EXCEPT
                      !.elapsed = elapsed,
                      !.polls = @ + 1,
                      !.pc = IF mon.exited THEN "returned" ELSE "sleeping",
                      !.updates =
                          (IF mon.registered THEN @ \o <<estimate>> ELSE @)
                          \o (IF mon.exited /\ mon.registered
                              THEN <<final>> ELSE <<>>)]
        /\ UNCHANGED <<backupVars, restoreVars, schedVars, ioVars, confVars>>

\* ProgressTracker.track_process of postgres_backup_restore.py, called
\* with the message "Creating parallel backup" and estimated_time 90; it
\* prints its updates, which are kept in mon.updates
EstimatedTime == 90

\* the seconds between two readings of time.time() in track_process
TrackWaits == {1, 44, 45}

\* the progress of one iteration of track_process
TrackProgress(elapsed) ==
    LET progress == IF elapsed < EstimatedTime
                    THEN (elapsed * 100) \div EstimatedTime
                    ELSE 95
    IN  IF progress > 99 THEN 99 ELSE progress

\* track_process is called and runs its first iteration, the tool just
\* started: elapsed is 0; it then sleeps
TrackCall ==
    /\ mon.pc = "idle"
    /\ mon' = [IdleMonitor EXCEPT
                  !.pc = "sleeping", !.kind = "track_process",
                  !.message = "Creating parallel backup",
                  !.given = TRUE, !.registered = TRUE,
                  !.updates = <<<<TrackProgress(0),
                                 <<"Creating parallel backup", 0, "s">>>>>>]
    /\ UNCHANGED <<backupVars, restoreVars, schedVars, ioVars, confVars>>

\* time.sleep(1) returns in track_process: after the exit the completion
\* is shown, else the next iteration reads the time and shows its progress
TrackWake(wait) ==
    LET elapsed == mon.elapsed + wait
    IN  /\ mon.pc = "sleeping"
        /\ mon.kind = "track_process"
        /\ mon.exited \/ mon.polls < MaxPolls
        /\ mon' = IF mon.exited
                  THEN [mon EXCEPT
                           !.pc = "returned",
                           !.updates = Append(@, <<100, <<mon.message,
                                                         "completed">>>>)]
                  ELSE [mon EXCEPT
                           !.elapsed = elapsed,
                           !.polls = @ + 1,
                           !.updates = Append(@, <<TrackProgress(elapsed),
                                                   <<mon.message, elapsed, "s">>>>)]
        /\ UNCHANGED <<backupVars, restoreVars, schedVars, ioVars, confVars>>

\* ------------------------------------------------------- specifications
Empty == [x \in {} |-> 0]

\* the names of the format-dispatch examples, and their files
BackupNames ==
    {Path(<<"backup">>, s) :
        s \in {<<"dump">>, <<"dump", "gz">>, <<"dump", "bz2">>, <<"tar">>,
               <<"tar", "gz">>, <<"tar", "bz2">>, <<"sql">>, <<"sql", "gz">>,
               <<"xyz">>}}

BrokenTar == Path(<<"broken">>, <<"tar">>)

MissingFile == Path(<<"missing">>, <<"dump">>)

\* the backup files on disk at the start: each name holds a backup of the
\* format its name says (backup.xyz a custom-format one), broken.tar a
\* truncated archive
StoredArtifacts ==
    [p \in BackupNames \cup {BrokenTar} |->
        IF p = BrokenTar THEN "partial"
        ELSE IF p.suffixes[1] = "tar" THEN "directory"
        ELSE IF p.suffixes[1] = "sql" THEN "sql"
        ELSE "custom"]

\* the files a caller may name: those stored, and one that does not exist
RestoreInputs == (DOMAIN StoredArtifacts) \cup {MissingFile}

RestoreIds == 1..MaxRestores

\* ---- external tools and their pipes ----

\* the operations that start an external tool with a pipe
Scenarios ==
    {"_create_custom_backup", "_restore_custom_format", "_restore_sql_format",
     "create_backup", "_restore_from_compressed_sql"}

\* the tool's stdout and stderr are asyncio pipes nobody reads while the
\* monitor loop runs
Monitored == {"_create_custom_backup", "_restore_custom_format"}

\* the operations whose tool writes into a pipe of the program
Writers == Monitored \cup {"_restore_sql_format", "create_backup"}

\* what an operating-system pipe holds before a write to it blocks
PipeCapacity == 2

\* the limit of an asyncio StreamReader: the transport stops reading the
\* pipe once the reader buffers more than twice as much
StreamLimit == 1

\* no tool started
IdleIo ==
    [scenario |-> "none", tool |-> "none", out_todo |-> 0, out |-> 0,
     buffer |-> 0, paused |-> FALSE, in_todo |-> 0, stdin |-> 0,
     stdin_open |-> FALSE, feeder |-> "none", waiter |-> "none", file |-> 0]

\* the operation up to the point where the tool runs: size is what the tool
\* will write (its --verbose log, its dump) or, for the legacy SQL restore,
\* the lines of the artifact the feeder thread will write to psql
ToolStarts(scenario, size) ==
    /\ io = IdleIo
    /\ io' = [IdleIo EXCEPT
                 !.scenario = scenario,
                 !.tool = "running",
                 !.out_todo = IF scenario \in Writers THEN size ELSE 0,
                 !.in_todo = IF scenario \in Writers THEN 0 ELSE size,
                 !.stdin_open = scenario \notin Writers,
                 !.feeder = IF scenario \in Writers THEN "none" ELSE "feeding",
                 !.waiter = IF scenario = "_restore_sql_format"
                            THEN "communicate" ELSE "monitoring"]
    /\ UNCHANGED <<backupVars, restoreVars, schedVars, monVars, confVars>>

\* fault variant: a write to a pipe whose reader has exited is treated as
\* a write to a pipe nobody reads
WriteIgnoringReader(fill, reader_gone) ==
    IF fill < PipeCapacity THEN "written" ELSE "blocked"

\* a blocking write of one unit to a pipe: it raises BrokenPipeError when
\* the reading process has exited, else it blocks while the pipe is full
Write(fill, reader_gone) ==
    IF reader_gone THEN "broken"
    ELSE IF fill < PipeCapacity THEN "written" ELSE "blocked"

\* the tool writes one unit of its output; it blocks while the pipe is full
ToolWrites ==
    /\ io.tool = "running"
    /\ io.out_todo > 0
    /\ Write(io.out, FALSE) = "written"
    /\ io' = [io EXCEPT !.out = @ + 1, !.out_todo = @ - 1]
    /\ UNCHANGED <<backupVars, restoreVars, schedVars, monVars, confVars>>

\* psql reads one unit of its stdin
ToolReads ==
    /\ io.tool = "running"
    /\ io.stdin > 0
    /\ io' = [io EXCEPT !.stdin = @ - 1]
    /\ UNCHANGED <<backupVars, restoreVars, schedVars, monVars, confVars>>

\* the tool exits once it has written all its output, or read its stdin
\* to the end of file
ToolFinishes ==
    /\ io.tool = "running"
    /\ io.out_todo = 0
    /\ io.stdin = 0
    /\ ~io.stdin_open
    /\ io' = [io EXCEPT !.tool = "exited"]
    /\ UNCHANGED <<backupVars, restoreVars, schedVars, monVars, confVars>>

\* the tool exits early with an error; what is in its stdin pipe is lost
ToolFails ==
    /\ io.tool = "running"
    /\ io.out_todo > 0 \/ io.stdin > 0 \/ io.stdin_open
    /\ io' = [io EXCEPT !.tool = "exited", !.out_todo = 0, !.stdin = 0]
    /\ UNCHANGED <<backupVars, restoreVars, schedVars, monVars, confVars>>

\* the event loop moves what is in an asyncio pipe into the StreamReader,
\* which pauses the transport once it buffers more than twice its limit
LoopReads ==
    /\ io.scenario \in Monitored \cup {"_restore_sql_format"}
    /\ io.out > 0
    /\ ~io.paused
    /\ io' = [io EXCEPT !.buffer = @ + io.out,
                        !.out = 0,
                        !.paused = io.buffer + io.out > 2 * StreamLimit]
    /\ UNCHANGED <<backupVars, restoreVars, schedVars, monVars, confVars>>

\* psql_process.communicate() reads the stream, which resumes the transport
StreamRead ==
    /\ io.waiter = "communicate"
    /\ io.buffer > 0
    /\ io' = [io EXCEPT !.buffer = 0, !.paused = FALSE]
    /\ UNCHANGED <<backupVars, restoreVars, schedVars, monVars, confVars>>

\* communicate() returns at the end of the streams, the process waited for
CommunicateReturns ==
    /\ io.waiter = "communicate"
    /\ io.tool = "exited"
    /\ io.out = 0
    /\ io.buffer = 0
    /\ io' = [io EXCEPT !.waiter = "monitoring"]
    /\ UNCHANGED <<backupVars, restoreVars, schedVars, monVars, confVars>>

\* the loop that waits for the tool's exit without reading its pipes
\* (_monitor_backup_process, _monitor_restore_process,
\* monitor_backup_progress, monitor_restore_progress) sees the exit; the
\* legacy backup then reads the dump, the legacy restore joins the feeder
MonitorSeesExit ==
    /\ io.waiter = "monitoring"
    /\ io.tool = "exited"
    /\ io' = [io EXCEPT !.waiter =
                 CASE io.scenario = "create_backup" -> "reading"
                   [] io.scenario = "_restore_from_compressed_sql" -> "joining"
                   [] OTHER -> "returned"]
    /\ UNCHANGED <<backupVars, restoreVars, schedVars, monVars, confVars>>

\* for line in process.stdout: sql_file.write(line), up to the end of file
ReadsLine ==
    /\ io.waiter = "reading"
    /\ IF io.out > 0
       THEN io' = [io EXCEPT !.out = @ - 1, !.file = @ + 1]
       ELSE /\ io.tool = "exited"
            /\ io' = [io EXCEPT !.waiter = "returned"]
    /\ UNCHANGED <<backupVars, restoreVars, schedVars, monVars, confVars>>

\* restore_thread: process.stdin.write(line); process.stdin.flush() for the
\* next line of the artifact, process.stdin.close() after the last; an
\* exception ends the thread
FeederWrites ==
    /\ io.feeder = "feeding"
    /\ IF io.in_todo = 0
       THEN io' = [io EXCEPT !.stdin_open = FALSE, !.feeder = "done"]
       ELSE LET write == Write(io.stdin, io.tool = "exited")
            IN  /\ write # "blocked"
                /\ io' = IF write = "broken"
                         THEN [io EXCEPT !.feeder = "broken",
                                         !.stdin_open = FALSE]
                         ELSE [io EXCEPT !.stdin = @ + 1, !.in_todo = @ - 1]
    /\ UNCHANGED <<backupVars, restoreVars, schedVars, monVars, confVars>>

\* restore_thread.join()
JoinReturns ==
    /\ io.waiter = "joining"
    /\ io.feeder \in {"done", "broken"}
    /\ io' = [io EXCEPT !.waiter = "returned"]
    /\ UNCHANGED <<backupVars, restoreVars, schedVars, monVars, confVars>>

\* ---- configuration ----

\* a configuration value: a string (its characters), an int or a bool
Value(type, v) == [type |-> type, v |-> v]

\* no value: a key that is not set; also the ValueError of int()
None == Value("none", 0)

\* three mapped keys, one of each coercion rule: log_level (standalone:
\* REMOTE_HOST), max_log_files (PARALLEL_JOBS), verify_backups (COMPRESSION)
env_mappings == {"log_level", "max_log_files", "verify_backups"}

\* the built-in defaults of a program (the default REMOTE_HOST shortened)
_get_default_config(program) ==
    IF program = "ConfigManager"
    THEN [log_level |-> Value("str", <<"I", "N", "F", "O">>),
          max_log_files |-> Value("int", 10),
          verify_backups |-> Value("bool", TRUE)]
    ELSE [log_level |-> Value("str", <<"4", "6", ".", "2">>),
          max_log_files |-> Value("int", 4),
          verify_backups |-> Value("bool", TRUE)]

\* str.lower() of one character
lower(c) ==
    CASE c = "E" -> "e" [] c = "F" -> "f" [] c = "I" -> "i" [] c = "N" -> "n"
      [] c = "O" -> "o" [] c = "R" -> "r" [] c = "S" -> "s" [] c = "T" -> "t"
      [] c = "U" -> "u" [] c = "Y" -> "y" [] OTHER -> c

\* the decimal digits and their values
Digits == [c \in {"0", "1", "2", "3", "4", "5", "6", "7", "8", "9"} |->
              CASE c = "0" -> 0 [] c = "1" -> 1 [] c = "2" -> 2 [] c = "3" -> 3
                [] c = "4" -> 4 [] c = "5" -> 5 [] c = "6" -> 6 [] c = "7" -> 7
                [] c = "8" -> 8 [] OTHER -> 9]

RECURSIVE strip(_)
\* str.strip() for blanks
strip(chars) ==
    IF chars = <<>> THEN chars
    ELSE IF Head(chars) = " " THEN strip(Tail(chars))
    ELSE IF chars[Len(chars)] = " " THEN strip(SubSeq(chars, 1, Len(chars) - 1))
    ELSE chars

RECURSIVE Decimal(_, _)
\* the value of a run of digits after the digits read so far
Decimal(chars, read) ==
    IF chars = <<>> THEN read
    ELSE Decimal(Tail(chars), 10 * read + Digits[Head(chars)])

\* int(value): surrounding blanks are ignored; None stands for ValueError
int(chars) ==
    LET digits == strip(chars)
    IN  IF digits # <<>> /\ \A i \in 1..Len(digits) : digits[i] \in DOMAIN Digits
        THEN Value("int", Decimal(digits, 0))
        ELSE None

\* value.lower() in ('true', 'yes', '1', 'on')
Truthy(chars) ==
    [i \in 1..Len(chars) |-> lower(chars[i])]
        \in {<<"t", "r", "u", "e">>, <<"y", "e", "s">>, <<"1">>, <<"o", "n">>}

\* _set_nested_value, and the branches of load_environment_variables: the
\* environment value of a key, coerced by the rule of the key, is stored;
\* an int that does not parse leaves the value as it is
_set_nested_value(config, final_key, value) ==
    CASE final_key = "max_log_files" ->
             IF int(value.v) = None THEN config
             ELSE [config EXCEPT ![final_key] = int(value.v)]
      [] final_key = "verify_backups" ->
             [config EXCEPT ![final_key] = Value("bool", Truthy(value.v))]
      [] OTHER -> [config EXCEPT ![final_key] = value]

RECURSIVE _load_from_environment(_, _, _)
\* the loop over env_mappings: the keys whose variable is set are stored
_load_from_environment(config, environ, keys) ==
    IF keys = {} THEN config
    ELSE LET key == CHOOSE k \in keys : TRUE
             stored == IF environ[key] = None THEN config
                       ELSE _set_nested_value(config, key, environ[key])
         IN  _load_from_environment(stored, environ, keys \ {key})

\* _merge_config / dict.update: the values of the file replace those of
\* the configuration, as they are in the file
_load_from_file(config, file) ==
    [key \in DOMAIN config |->
        IF file[key] = None THEN config[key] ELSE file[key]]

\* no configuration manager constructed
NoConfig == [program |-> "none", file |-> <<>>, environ |-> <<>>,
             config |-> <<>>]

\* ConfigManager(): src/core/config.py loads the file and then the
\* environment, the standalone program the environment and then the file
ConfigManagerInit ==
    /\ conf.program # "none"
    /\ conf.config = <<>>
    /\ conf' = [conf EXCEPT !.config =
                   IF conf.program = "ConfigManager"
                   THEN _load_from_environment(
                            _load_from_file(_get_default_config(conf.program),
                                            conf.file),
                            conf.environ, env_mappings)
                   ELSE _load_from_file(
                            _load_from_environment(
                                _get_default_config(conf.program),
                                conf.environ, env_mappings),
                            conf.file)]
    /\ UNCHANGED <<backupVars, restoreVars, schedVars, monVars, ioVars>>

\* the two managers after construction
ManagersInit ==
    /\ active_backups = Empty
    /\ progress_callbacks = Empty
    /\ bexec = [e \in BackupExecs |-> IdleExec]
    /\ bresult = [e \in BackupExecs |-> NewResult]
    /\ files = StoredArtifacts
    /\ now_s = 1
    /\ active_restores = Empty
    /\ restore_callbacks = Empty
    /\ rexec = [r \in RestoreExecs |-> IdleRestore]
    /\ rresult = [r \in RestoreExecs |-> NewRestoreResult]
    /\ mon = IdleMonitor
    /\ io = IdleIo

\* backups and restores, the scheduler not started
Init ==
    /\ ManagersInit
    /\ conf = NoConfig
    /\ target_db \in {"absent", "exists"}
    /\ clock = 0
    /\ due = Empty
    /\ running = FALSE
    /\ loop = "none"
    /\ runs = <<>>
    /\ job_history = <<>>
    /\ unwinding = 0

Next ==
    \/ \E e \in BackupExecs, job \in AllJobs \cup ConfiguredJobs, cb \in BOOLEAN :
           BackupStart(e, job, cb)
    \/ \E e \in BackupExecs, o \in {"ok", "mkdir_error", "spawn_error"} :
           BackupLaunch(e, o)
    \/ \E e \in BackupExecs, code \in {0, 1}, err \in StderrTexts,
          wrote \in BOOLEAN,
          o \in {"ok", "tar_error", "checksum_error", "stat_error"} :
           BackupFinish(e, code, err, wrote, o)
    \/ \E id \in JobIds : CancelBackup(id)
    \/ \E r \in RestoreExecs, p \in RestoreInputs, cb \in BOOLEAN,
          t \in RestoreIds : RestoreStart(r, p, cb, t)
    \/ \E r \in RestoreExecs, listed \in BOOLEAN : RestoreVerified(r, listed)
    \/ \E r \in RestoreExecs : RestoreInfo(r)
    \/ \E r \in RestoreExecs, exists \in BOOLEAN : RestoreProbed(r, exists)
    \/ \E r \in RestoreExecs, ok \in BOOLEAN : RestoreDropped(r, ok)
    \/ \E r \in RestoreExecs, ok \in BOOLEAN, l \in {"ok", "spawn_error"} :
           RestoreCreated(r, ok, l)
    \/ \E r \in RestoreExecs, code \in {0, 1}, err \in StderrTexts :
           RestoreAfterTool(r, code, err)
    \/ \E r \in RestoreExecs, answered \in BOOLEAN,
          backup_tables \in {0, 10}, current_tables \in TableCounts :
           RestorePostVerified(r, answered, backup_tables, current_tables)
    \/ \E id \in RestoreIds : CancelRestore(id)

Spec == Init /\ [][Next]_vars

\* the moments the scheduler may be started: around 01:58 - 02:00
StartTimes ==
    {At(0, 1, 58, 0), At(0, 1, 58, 30), At(0, 1, 58, 59), At(0, 1, 59, 0),
     At(0, 1, 59, 30), At(0, 1, 59, 59), At(0, 2, 0, 0)}

\* the scheduler started, no job running
InitCron ==
    /\ ManagersInit
    /\ conf = NoConfig
    /\ target_db = "absent"
    /\ clock \in StartTimes
    /\ due = Empty
    /\ running = TRUE
    /\ loop = "ready"
    /\ runs = <<>>
    /\ job_history = <<>>
    /\ unwinding = 0

NextCron == \E lag \in 0..MaxLag : SchedulerTick(lag)

SpecCron == InitCron /\ [][NextCron]_vars

\* the backup directory of the scheduled jobs: two backups of job daily
\* from 2020, one of yesterday, a note and a file of another name
BackupDir ==
    (Path(<<"daily", "20200101", "000000">>, <<"sql">>) :> "sql")
    @@ (Path(<<"daily", "20200101", "020000">>, <<"tar", "gz">>) :> "directory")
    @@ (Path(<<"daily", "20231231", "000000">>, <<"sql">>) :> "sql")
    @@ (Path(<<"daily", "notes">>, <<"txt">>) :> "text")
    @@ (Path(<<"random">>, <<"sql">>) :> "sql")

\* the results of n earlier runs, the history they left
PastHistory(n) == [i \in 1..n |-> i - n]

PastHistories == {PastHistory(0), PastHistory(max_history - 1)}

\* the scheduler is started shortly before 02:00 and watched to 02:01:30
SchedStartTimes == {At(0, 1, 58, 59), At(0, 1, 59, 30)}

SchedEnd == At(0, 2, 1, 30)

\* at most MaxRuns job runs are launched
MaxRuns == 3

\* at most MaxUnwinding cancelled loop tasks wait to resume
MaxUnwinding == 1

\* the scheduler constructed, not started, its jobs added
InitSched ==
    /\ active_backups = Empty
    /\ progress_callbacks = Empty
    /\ bexec = [e \in BackupExecs |-> IdleExec]
    /\ bresult = [e \in BackupExecs |-> NewResult]
    /\ files = BackupDir
    /\ now_s = 1
    /\ active_restores = Empty
    /\ restore_callbacks = Empty
    /\ rexec = [r \in RestoreExecs |-> IdleRestore]
    /\ rresult = [r \in RestoreExecs |-> NewRestoreResult]
    /\ mon = IdleMonitor
    /\ io = IdleIo
    /\ conf = NoConfig
    /\ target_db = "absent"
    /\ clock \in SchedStartTimes
    /\ due = Empty
    /\ running = FALSE
    /\ loop = "none"
    /\ runs = <<>>
    /\ job_history \in PastHistories
    /\ unwinding = 0

NextSched ==
    \/ SchedulerStart
    \/ \E awaited \in BOOLEAN :
           SchedulerStop(awaited) /\ unwinding' <= MaxUnwinding
    \/ LoopUnwinds
    \/ \E lag \in 0..MaxLag :
           /\ SchedulerTick(lag)
           /\ clock' < SchedEnd
           /\ Len(runs') <= MaxRuns
    \/ \E r \in 1..MaxRuns, o \in {"completed", "failed", "raised"} :
           RunReturns(r, o)

SpecSched == InitSched /\ [][NextSched]_vars

\* A configuration manager of either program is constructed with some
\* configuration file (a key holds nothing, a string, an int or a bool) and
\* some environment (a variable holds nothing or a string).
InitConfig ==
    /\ ManagersInit
    /\ target_db = "absent"
    /\ clock = 0
    /\ due = Empty
    /\ running = FALSE
    /\ loop = "none"
    /\ runs = <<>>
    /\ job_history = <<>>
    /\ unwinding = 0
    /\ conf \in [program : {"ConfigManager",
                            "postgres_backup_restore.ConfigManager"},
                 file : [env_mappings ->
                             {None, Value("str", <<"Y", "E", "S">>),
                              Value("int", 3), Value("bool", FALSE)}],
                 environ : [env_mappings ->
                                {None, Value("str", <<"7">>),
                                 Value("str", <<" ", "7">>),
                                 Value("str", <<"7", "x">>),
                                 Value("str", <<"O", "n">>),
                                 Value("str", <<"o", "f", "f">>)}],
                 config : {<<>>}]

SpecConfig == InitConfig /\ [][ConfigManagerInit]_vars

\* the job ids run_job_now is called with: a scheduled job, a scheduled job
\* that is disabled, and an id that is not in the schedule
RunNowIds == {"daily", "paused", "unknown"}

\* A scheduler whose jobs are also run by hand: run_job_now calls next to
\* the ticks of the loop, with or without earlier results in the history.
InitRunNow ==
    /\ active_backups = Empty
    /\ progress_callbacks = Empty
    /\ bexec = [e \in BackupExecs |-> IdleExec]
    /\ bresult = [e \in BackupExecs |-> NewResult]
    /\ files = BackupDir
    /\ now_s = 1
    /\ active_restores = Empty
    /\ restore_callbacks = Empty
    /\ rexec = [r \in RestoreExecs |-> IdleRestore]
    /\ rresult = [r \in RestoreExecs |-> NewRestoreResult]
    /\ mon = IdleMonitor
    /\ io = IdleIo
    /\ conf = NoConfig
    /\ target_db = "absent"
    /\ clock = At(0, 1, 58, 59)
    /\ due = Empty
    /\ running = FALSE
    /\ loop = "none"
    /\ runs = <<>>
    /\ job_history \in PastHistories
    /\ unwinding = 0

NextRunNow ==
    \/ SchedulerStart
    \/ /\ SchedulerTick(0)
       /\ clock' < SchedEnd
       /\ Len(runs') <= MaxRuns
    \/ \E id \in RunNowIds :
           RunJobNow(id) /\ Len(runs') <= MaxRuns
    \/ \E r \in 1..MaxRuns, o \in {"completed", "failed", "raised"} :
           RunReturns(r, o)

SpecRunNow == InitRunNow /\ [][NextRunNow]_vars

\* one monitored tool run
InitMonitor ==
    /\ ManagersInit
    /\ conf = NoConfig
    /\ target_db = "absent"
    /\ clock = 0
    /\ due = Empty
    /\ running = FALSE
    /\ loop = "none"
    /\ runs = <<>>
    /\ job_history = <<>>
    /\ unwinding = 0

NextMonitor ==
    \/ \E kind \in Monitors, given \in BOOLEAN :
           \E message \in Messages(kind) : MonitorCall(kind, message, given)
    \/ \E kind \in Monitors, given \in BOOLEAN : OperationFailsEarly(kind, given)
    \/ \E code \in {0, 1} : ProcessExits(code)
    \/ MonitorCancel
    \/ \E wait \in Waits : MonitorWake(wait)
    \/ TrackCall
    \/ \E wait \in TrackWaits : TrackWake(wait)

SpecMonitor == InitMonitor /\ [][NextMonitor]_vars

\* the sizes of a tool's output or input, in units of a pipe write
MaxUnits == 6

\* what the program, the event loop and the tool do when they are scheduled
Served ==
    \/ ToolWrites
    \/ ToolReads
    \/ ToolFinishes
    \/ LoopReads
    \/ StreamRead
    \/ CommunicateReturns
    \/ MonitorSeesExit
    \/ ReadsLine
    \/ FeederWrites
    \/ JoinReturns

\* One operation with an external tool: the tool, its pipes, the event loop
\* or feeder thread, and the code that waits for the tool.
NextPipes ==
    \/ \E scenario \in Scenarios, size \in 0..MaxUnits :
           ToolStarts(scenario, size)
    \/ ToolFails
    \/ Served

SpecPipes == InitMonitor /\ [][NextPipes]_vars

\* the same, every process, thread and task being scheduled eventually
SpecPipesFair == SpecPipes /\ WF_vars(Served)

\* ---------------------------------------------------------------- claims
\* the entries of the four registries belong to executions in flight
C1_Registered ==
    /\ \A id \in DOMAIN active_backups :
           /\ BackupInFlight(active_backups[id])
           /\ bexec[active_backups[id]].job.id = id
    /\ \A id \in DOMAIN progress_callbacks :
           /\ BackupInFlight(progress_callbacks[id])
           /\ bexec[progress_callbacks[id]].job.id = id
    /\ \A id \in DOMAIN active_restores :
           /\ RestoreInFlight(active_restores[id])
           /\ rexec[active_restores[id]].id = id
    /\ \A id \in DOMAIN restore_callbacks :
           /\ RestoreInFlight(restore_callbacks[id])
           /\ rexec[restore_callbacks[id]].id = id

\* the step in which an execution returns leaves its id in no registry
C1_ReturnDeregisters ==
    /\ \A e \in BackupExecs :
           bexec[e].pc # "done" /\ bexec'[e].pc = "done" =>
               /\ bexec'[e].job.id \notin DOMAIN active_backups'
               /\ bexec'[e].job.id \notin DOMAIN progress_callbacks'
    /\ \A r \in RestoreExecs :
           rexec[r].pc # "done" /\ rexec'[r].pc = "done" =>
               /\ rexec'[r].id \notin DOMAIN active_restores'
               /\ rexec'[r].id \notin DOMAIN restore_callbacks'

\* C1: the registries never hold a finished execution.  In every reachable
\* state an id in active_backups or progress_callbacks (active_restores or
\* the restore callbacks) is the id of an execution that has started and
\* not returned, whatever the interleaving of calls for the same id and of
\* cancellations; and the step in which create_backup / restore_backup
\* returns, by any path, leaves its id deregistered.
C1_RegistryHoldsOnlyInFlight ==
    C1_Registered /\ [][C1_Registered' /\ C1_ReturnDeregisters]_vars

\* an execution has returned while a second one for the same job id is
\* registered and in flight
C1_Witness ==
    \E e1, e2 \in BackupExecs :
        /\ bexec[e1].pc = "done"
        /\ BackupInFlight(e2)
        /\ bexec[e1].job.id = bexec[e2].job.id
        /\ bexec[e2].job.id \in DOMAIN active_backups
        /\ bexec[e2].job.id \in DOMAIN progress_callbacks

\* C2: create_backup and restore_backup never raise to their caller for a
\* failure inside the operation: every execution that has ended has
\* returned a result whose status is completed or failed and whose
\* end_time is set.
C2_AlwaysReturnsResult ==
    /\ \A e \in BackupExecs :
           bexec[e].pc = "done" =>
               /\ bexec[e].returned = "result"
               /\ bresult[e].status \in {"completed", "failed"}
               /\ bresult[e].end_time # "none"
    /\ \A r \in RestoreExecs :
           rexec[r].pc = "done" =>
               /\ rexec[r].returned = "result"
               /\ rresult[r].status \in {"completed", "failed"}
               /\ rresult[r].end_time # "none"

\* a filesystem error inside create_backup has ended in a returned result
C2_Witness ==
    \E e \in BackupExecs :
        /\ bexec[e].pc = "done"
        /\ bexec[e].returned = "result"
        /\ bresult[e].error_message = <<"mkdir failed">>

C4_StrategyByConfiguration ==
    \A e \in BackupExecs :
        LET job == bexec[e].job
            dir == job.parallel_jobs > 1 /\ job.compression # "none"
            zip == IF job.compression = "gzip" THEN <<"gz">>
                   ELSE IF job.compression = "bzip2" THEN <<"bz2">> ELSE <<>>
        IN  /\ bexec[e].strategy # <<>> =>
                /\ job.backup_type = "full"
                /\ bexec[e].strategy = <<IF dir THEN "directory" ELSE "custom">>
                /\ bexec[e].final_file.suffixes =
                       (IF dir THEN <<"tar">> ELSE <<"dump">>) \o zip
            /\ bexec[e].pc = "dump" => bexec[e].strategy # <<>>
            /\ bresult[e].status = "completed" /\ bexec[e].pc = "done" =>
                /\ bresult[e].backup_file = bexec[e].final_file
                /\ bexec[e].final_file \in DOMAIN files
                /\ files[bexec[e].final_file] = bexec[e].strategy[1]

\* a directory-strategy backup with bzip2 has failed in pg_dump, and the
\* custom strategy was not tried
C4_Witness ==
    \E e \in BackupExecs :
        /\ bexec[e].pc = "done"
        /\ bexec[e].job.compression = "bzip2"
        /\ bexec[e].job.parallel_jobs = 2
        /\ bexec[e].returncode = 1
        /\ bexec[e].strategy = <<"directory">>
        /\ bexec[e].final_file.suffixes = <<"tar", "bz2">>

\* C5: restore format detection by suffix chain.  A restore of a stored
\* backup.tar / .tar.gz / .tar.bz2 takes the directory path, of
\* backup.dump / .dump.gz / .dump.bz2 the custom path, of backup.sql /
\* .sql.gz the plain-SQL path, and a restore of backup.xyz the error path;
\* on the error path the restore ends failed without running a tool.
C5_FormatBySuffixChain ==
    \A r \in RestoreExecs :
        rexec[r].pc # "idle" /\ rexec[r].file \in BackupNames =>
            LET first == rexec[r].file.suffixes[1]
                expected == IF first = "tar" THEN "directory"
                            ELSE IF first = "dump" THEN "custom"
                            ELSE IF first = "sql" THEN "sql" ELSE "none"
            IN  /\ rexec[r].branch = expected
                /\ expected = "none" =>
                       /\ rexec[r].pc = "done"
                       /\ rresult[r].status = "failed"
                       /\ \A i \in DOMAIN rexec[r].log : rexec[r].log[i].step # "tool"

\* C6: restore_backup performs its steps in a fixed order and stops at the
\* first failed step: verification, probe, drop (exactly when the probe
\* reported the target exists), create, tool, post-restore verification.
\* No step is called after a verification, drop, create or tool step that
\* failed, so drop_database / create_database are never called after a
\* failed verification and the tool is never launched unless
\* create_database succeeded; a restore with a failed step ends failed.
C6_StepsInOrder ==
    \A r \in RestoreExecs :
        LET log == rexec[r].log
            called == [i \in DOMAIN log |-> log[i].step] \o
                      (IF rexec[r].pc \in {"verify", "probe", "drop", "create",
                                           "tool", "postverify"}
                       THEN <<rexec[r].pc>> ELSE <<>>)
            order == <<"verify", "probe", "drop", "create", "tool", "postverify">>
            skipping == <<"verify", "probe", "create", "tool", "postverify">>
            n == Len(called)
        IN  /\ \/ called = SubSeq(order, 1, n)
               \/ called = SubSeq(skipping, 1, n)
            /\ \A i \in DOMAIN log :
                   /\ log[i].step \in {"verify", "drop", "create", "tool"} /\ i < n
                          => log[i].ok
                   /\ log[i].step = "probe" /\ i < n =>
                          (log[i].ok <=> called[i + 1] = "drop")
                   /\ log[i].step \in {"verify", "drop", "create", "tool"}
                          /\ ~log[i].ok /\ rexec[r].pc = "done"
                          => rresult[r].status = "failed"
            /\ rexec[r].pc = "done" /\ rresult[r].status = "completed" =>
                   called \in {order, skipping}

\* a restore has dropped the existing target, created it, run the tool and
\* verified the result
C6_Witness ==
    \E r \in RestoreExecs :
        /\ rexec[r].pc = "done"
        /\ rresult[r].status = "completed"
        /\ [i \in DOMAIN rexec[r].log |-> rexec[r].log[i].step] =
               <<"verify", "probe", "drop", "create", "tool", "postverify">>

\* C7: if the pg_dump step of a backup fails, no file of that backup is at
\* the final artifact location afterwards, for the directory and for the
\* custom-format strategy, whatever pg_dump had written.
C7_NoArtifactAfterFailedDump ==
    \A e \in BackupExecs :
        bexec[e].pc = "done" /\ bexec[e].returncode \notin {-1, 0} =>
            bexec[e].final_file \notin DOMAIN files

\* C8: once a result has a terminal status no later step changes its
\* status or its end_time; a result cancelled while its execution was in
\* flight stays cancelled when the execution finishes.
C8_TerminalStatusIsFinal ==
    [][/\ \A e \in BackupExecs :
              bexec[e].pc # "idle" /\ bresult[e].status \in Terminal =>
                  /\ bresult'[e].status = bresult[e].status
                  /\ bresult'[e].end_time = bresult[e].end_time
       /\ \A r \in RestoreExecs :
              rexec[r].pc # "idle" /\ rresult[r].status \in Terminal =>
                  /\ rresult'[r].status = rresult[r].status
                  /\ rresult'[r].end_time = rresult[r].end_time]_vars

\* C9: cancel_backup(id) / cancel_restore(id) on a registered id marks
\* the registered result cancelled, stamps its end_time, removes the id
\* from the registry and from the callback map and returns true, and
\* changes nothing else: no execution frame moves, so the execution in
\* flight goes on; on an id that is not registered it returns false and
\* changes no state.
C9_CancelIsBookkeeping ==
    [][/\ \A id \in JobIds : CancelBackup(id) =>
              IF id \in DOMAIN active_backups
              THEN /\ CancelReturns(active_backups, id)
                   /\ bresult'[active_backups[id]].status = "cancelled"
                   /\ bresult'[active_backups[id]].end_time = "cancel_backup"
                   /\ \A e \in BackupExecs \ {active_backups[id]} :
                          bresult'[e] = bresult[e]
                   /\ id \notin DOMAIN active_backups'
                   /\ id \notin DOMAIN progress_callbacks'
                   /\ \A x \in JobIds \ {id} :
                          /\ x \in DOMAIN active_backups <=> x \in DOMAIN active_backups'
                          /\ x \in DOMAIN progress_callbacks
                                 <=> x \in DOMAIN progress_callbacks'
                   /\ UNCHANGED <<bexec, files, restoreVars, schedVars, ioVars, confVars>>
              ELSE /\ ~CancelReturns(active_backups, id)
                   /\ UNCHANGED vars
       /\ \A id \in RestoreIds : CancelRestore(id) =>
              IF id \in DOMAIN active_restores
              THEN /\ CancelReturns(active_restores, id)
                   /\ rresult'[active_restores[id]].status = "cancelled"
                   /\ rresult'[active_restores[id]].end_time = "cancel_restore"
                   /\ \A r \in RestoreExecs \ {active_restores[id]} :
                          rresult'[r] = rresult[r]
                   /\ id \notin DOMAIN active_restores'
                   /\ id \notin DOMAIN restore_callbacks'
                   /\ UNCHANGED <<rexec, target_db, now_s, backupVars, schedVars,
                                 ioVars, confVars>>
              ELSE /\ ~CancelReturns(active_restores, id)
                   /\ UNCHANGED vars]_vars

\* a backup was cancelled with its callback registered, and its execution
\* is still in flight
C9_Witness ==
    \E e \in BackupExecs :
        /\ BackupInFlight(e)
        /\ bresult[e].status = "cancelled"
        /\ bresult[e].end_time = "cancel_backup"
        /\ bexec[e].job.id \notin DOMAIN active_backups

\* C10 as stated: the due-check made at 02:00:30 reports the daily 02:00
\* job due, the one made at 02:01:30 reports it not due.
C10_DueAfterFireTime ==
    "daily" \in DOMAIN due =>
        /\ clock % Day = At(0, 2, 0, 30) => due["daily"]
        /\ clock % Day = At(0, 2, 1, 30) => ~due["daily"]

\* C10, amended: a due-check reports the daily 02:00 job due exactly when
\* it is made in the 60 seconds up to the fire time, 01:59:00 <= now <
\* 02:00:00 (so at 01:59:30); the due-checks made at 02:00:30 and at
\* 02:01:30 report it not due, and it is not reported due again before
\* 01:59:00 of the next day.
C10_DueBeforeFireTime ==
    "daily" \in DOMAIN due =>
        /\ due["daily"] <=>
               (At(0, 1, 59, 0) <= clock % Day /\ clock % Day < At(0, 2, 0, 0))
        /\ clock % Day = At(0, 1, 59, 30) => due["daily"]
        /\ clock % Day \in {At(0, 2, 0, 30), At(0, 2, 1, 30)} => ~due["daily"]

\* the scheduler has made its due-check of 02:00:30 and the answer was
\* not due
C10_Witness ==
    /\ "daily" \in DOMAIN due
    /\ clock = At(0, 2, 0, 30)
    /\ ~due["daily"]


\* the occurrences of "0 2 * * *" within the days the scheduler runs
FireTimes == {At(d, 2, 0, 0) : d \in 0..MaxDays}

\* C11: a scheduled job is not missed: when an occurrence of its schedule
\* falls between one tick of the running scheduler and the next (the later
\* tick included), one of the two ticks finds the job due and launches it
C11_OccurrenceNotMissed ==
    [][\A F \in FireTimes :
          (loop = "sleeping" /\ loop' = "sleeping" /\ clock < F /\ F <= clock')
              => \/ due["daily"]
                 \/ /\ due'["daily"]
                    /\ \E i \in (Len(runs) + 1)..Len(runs') :
                           runs'[i].job = "daily"]_vars

\* an enabled job whose schedule parses and fires within DueWindow of now
C12_Due(j, now) ==
    /\ j.enabled
    /\ Len(j.schedule) = 2
    /\ get_next(j.schedule, now) - now \in 0..DueWindow

\* a step that is an iteration of the scheduler loop
C12_TickStep == loop' = "sleeping" /\ (loop = "ready" \/ clock' # clock)

\* C12: failure isolation: whatever the other jobs do (a schedule that
\* does not parse, runs that failed, raised or have not finished), every
\* tick launches every due job as a task of its own, and the loop of a
\* running scheduler has not ended
C12_FailureIsolation ==
    /\ [](running => loop \in {"ready", "sleeping"})
    /\ [][C12_TickStep =>
             \A j \in scheduled_jobs :
                 C12_Due(j, clock') =>
                     \E i \in (Len(runs) + 1)..Len(runs') :
                         runs'[i].job = j.id /\ runs'[i].pc = "backup"]_vars

\* job late was launched after the run of job daily had raised and while
\* the run of job nightly is not finished, job broken being scheduled
C12_Witness ==
    /\ running
    /\ BrokenJob \in scheduled_jobs
    /\ Len(runs) = 3
    /\ runs[1].job = "daily" /\ runs[1].pc = "raised"
    /\ runs[2].job = "nightly" /\ runs[2].pc = "backup"
    /\ runs[3].job = "late" /\ runs[3].pc = "backup"

\* the name {job.name}_{YYYYMMDD}_{HHMMSS}.<ext> of a backup of job id
C13_Named(p, id) ==
    /\ Len(p.stem) = 3
    /\ p.stem[1] = id
    /\ p.stem[2] \in DOMAIN DayNumber
    /\ p.stem[3] \in DOMAIN TimeOfDay
    /\ Len(p.suffixes) >= 1

\* the timestamp embedded in such a name
C13_Embedded(p) == DayNumber[p.stem[2]] * Day + TimeOfDay[p.stem[3]]

\* C13: after a run of a job has completed (create_backup returned a
\* completed or a failed result), the directory holds no backup of the job
\* whose embedded timestamp is older than now minus retention_days
C13_ExpiredDeleted ==
    \A r \in 1..Len(runs) :
        runs[r].pc = "returned" =>
            \A p \in DOMAIN files :
                C13_Named(p, runs[r].job) =>
                    C13_Embedded(p) >= clock - RetentionDays * Day

\* C14: no step deletes a file that is not named as a backup of a job, or
\* one that is and whose embedded timestamp lies within the retention window
C14_NeverBlind ==
    [][\A p \in DOMAIN files :
          (\A j \in scheduled_jobs :
              \/ ~C13_Named(p, j.id)
              \/ C13_Embedded(p) >= clock - RetentionDays * Day)
              => p \in DOMAIN files']_vars

\* the sweep of job daily has run; random.sql, the note and yesterday's
\* backup are in the directory
C14_Witness ==
    /\ \E r \in 1..Len(runs) : runs[r].job = "daily" /\ runs[r].pc = "returned"
    /\ {Path(<<"random">>, <<"sql">>), Path(<<"daily", "notes">>, <<"txt">>),
        Path(<<"daily", "20231231", "000000">>, <<"sql">>)} \subseteq DOMAIN files

\* the last min(Len(all), max_history) entries of all, in their order
C15_MostRecent(all) ==
    LET k == IF Len(all) < max_history THEN Len(all) ELSE max_history
    IN  [i \in 1..k |-> all[Len(all) - k + i]]

\* the runs that finish in a step
C15_Finishing == {r \in 1..Len(runs) : runs[r].pc = "backup" /\ runs'[r].pc # "backup"}

\* C15: the history never holds more than max_history results; a step in
\* which a run finishes appends that run's result and keeps the most recent
\* max_history entries in the order they were appended, every other step
\* leaves the history as it is; below the cap the result of every finished
\* run is in the history
C15_BoundedAppendOnly ==
    /\ [](Len(job_history) <= max_history)
    /\ [](\A r \in 1..Len(runs) :
             runs[r].pc \in {"returned", "raised"} =>
                 \/ Len(job_history) = max_history
                 \/ \E i \in 1..Len(job_history) : job_history[i] = r)
    /\ [][IF C15_Finishing = {}
          THEN job_history' = job_history
          ELSE \E r \in C15_Finishing :
                  /\ C15_Finishing = {r}
                  /\ job_history' = C15_MostRecent(Append(job_history, r))]_vars

\* two runs finished after max_history - 1 earlier ones: the history is
\* full, the oldest result is evicted, the two new ones are its last entries
C15_Witness ==
    /\ Len(job_history) = max_history
    /\ job_history[1] = PastHistory(max_history - 1)[2]
    /\ job_history[max_history - 1] \in 1..Len(runs)
    /\ job_history[max_history] \in 1..Len(runs)
    /\ \E r \in 1..Len(runs) : runs[r].pc = "backup"

\* C16: while the scheduler is stopped no step is a tick or launches a job;
\* stop() itself leaves the runs and the history as they are; a run in
\* flight while the scheduler is stopped can return, and when it does its
\* result is appended to the history
C16_StopCancelsOnlyLoop ==
    /\ [](~running => loop \in {"none", "ended"})
    /\ [](\A r \in 1..Len(runs) :
             (~running /\ runs[r].pc = "backup") =>
                 ENABLED RunReturns(r, "completed"))
    /\ [][/\ ~running =>
               (clock' = clock /\ due' = due /\ Len(runs') = Len(runs))
          /\ (running /\ ~running') =>
               (runs' = runs /\ job_history' = job_history)
          /\ \A r \in 1..Len(runs) :
               (~running /\ ~running' /\ runs[r].pc = "backup"
                    /\ runs'[r] # runs[r]) =>
                   /\ runs'[r].pc \in {"returned", "raised"}
                   /\ job_history'[Len(job_history')] = r]_vars

\* the scheduler was stopped after it had launched jobs: one run has
\* returned and is in the history, another is still in flight
C16_Witness ==
    /\ ~running
    /\ loop = "ended"
    /\ \E r \in 1..Len(runs) : runs[r].pc = "backup"
    /\ \E r \in 1..Len(runs) :
           /\ runs[r].pc = "returned"
           /\ job_history[Len(job_history)] = r

\* C17: when the monitor has returned and the callback was registered
\* throughout, the updates end with (100, "<message> completed") and no
\* earlier update has 100; an update of 100 is only made after the exit
C17_TerminalUpdate ==
    /\ (\E i \in 1..Len(mon.updates) : mon.updates[i][1] = 100) => mon.exited
    /\ (mon.pc = "returned" /\ mon.exited /\ mon.given /\ mon.registered) =>
           /\ mon.updates # <<>>
           /\ mon.updates[Len(mon.updates)] = <<100, <<mon.message, "completed">>>>
           /\ \A i \in 1..(Len(mon.updates) - 1) : mon.updates[i][1] < 100

\* a restore tool exited with code 1 after polls that reached the cap of 95
C17_Witness ==
    /\ mon.pc = "returned" /\ mon.given /\ mon.registered
    /\ mon.kind = "restore" /\ mon.returncode = 1
    /\ Len(mon.updates) = MaxPolls + 2
    /\ mon.updates[MaxPolls][1] = 95
    /\ mon.updates[Len(mon.updates)][1] = 100

\* C18: an operation that was given a callback and has returned has
\* invoked it exactly once with 100, as its last invocation
C18_ExactlyOneFinalUpdate ==
    (mon.pc = "returned" /\ mon.given) =>
        /\ Cardinality({i \in 1..Len(mon.updates) : mon.updates[i][1] = 100}) = 1
        /\ mon.updates[Len(mon.updates)][1] = 100

\* C19: a restore whose existing-database handler did not proceed (the
\* drop of the existing target failed) ends with status cancelled, and its
\* restore tool was not run
C19_DeclineIsCancellation ==
    \A r \in RestoreExecs :
        (/\ rexec[r].pc = "done"
         /\ \E i \in DOMAIN rexec[r].log : rexec[r].log[i] = Step("drop", FALSE))
            => /\ rresult[r].status = "cancelled"
               /\ \A i \in DOMAIN rexec[r].log : rexec[r].log[i].step # "tool"

\* C20: a restore whose post-restore verification has run is completed, and
\* its verification_passed tells whether the target answered, whether or
\* not the table counts mismatched
C20_VerificationIsSoft ==
    \A r \in RestoreExecs :
        LET log == rexec[r].log
        IN  (rexec[r].pc = "done" /\ log # <<>>
                 /\ log[Len(log)].step = "postverify")
                => /\ rresult[r].status = "completed"
                   /\ rresult[r].verification_passed = log[Len(log)].ok

\* a completed restore with a table count mismatch and verification_passed
C20_Witness ==
    \E r \in RestoreExecs :
        /\ rexec[r].pc = "done"
        /\ rexec[r].warned
        /\ rresult[r].status = "completed"
        /\ rresult[r].verification_passed

\* the fire times of "minute hour * * *" within the days of the clock
C24_Occurrences(schedule) ==
    {At(d, schedule[2], schedule[1], 0) : d \in 0..(MaxDays + 1)}

C23_Estimated(kind) ==
    IF kind = "track_process" THEN EstimatedTime ELSE Assumed(kind)

\* C23: every update made before the final one has percent
\* min(95, elapsed * 100 div estimated), so within 0..95, and no update
\* has a lower percent than the one before it; 100 is only reported after
\* the exit
C23_TimeBasedProgress ==
    /\ \A i \in 1..Len(mon.updates) :
           LET percent == mon.updates[i][1]
               text == mon.updates[i][2]
           IN  IF Len(text) = 2
               THEN percent = 100 /\ mon.exited
               ELSE /\ percent \in 0..95
                    /\ LET estimate == (text[2] * 100) \div C23_Estimated(mon.kind)
                       IN  percent = IF estimate < 95 THEN estimate ELSE 95
    /\ \A i \in 1..(Len(mon.updates) - 1) :
           mon.updates[i][1] <= mon.updates[i + 1][1]

\* C28: between the start of the watch and SchedEnd every scheduled job
\* has one occurrence, and the tick loop launches no job twice for it,
\* also when the scheduler is stopped and started again
C28_AtMostOneLaunch ==
    \A j \in scheduled_jobs :
        Cardinality({r \in 1..Len(runs) :
                        runs[r].job = j.id /\ runs[r].caller = "tick"}) <= 1

\* C27: every execution of create_backup or restore_backup that has
\* started, has not returned and has not been cancelled is the one the
\* active registry holds under its id
C27_InFlightIsRegistered ==
    /\ \A e \in BackupExecs :
           (BackupInFlight(e) /\ bresult[e].status # "cancelled") =>
               /\ bexec[e].job.id \in DOMAIN active_backups
               /\ active_backups[bexec[e].job.id] = e
    /\ \A r \in RestoreExecs :
           (RestoreInFlight(r) /\ rresult[r].status # "cancelled") =>
               /\ rexec[r].id \in DOMAIN active_restores
               /\ active_restores[rexec[r].id] = r

\* the run_job_now calls that return in a step for a scheduled job
C29_Returning ==
    {r \in 1..Len(runs) :
        /\ runs[r].caller = "run_job_now"
        /\ runs[r].pc = "backup"
        /\ runs'[r].pc # "backup"}

\* C29: a run_job_now call for a scheduled job, enabled or not, is one run
\* of the job; the step in which it returns appends exactly the result of
\* that run to the history and returns that result, whatever other runs of
\* the job have finished or are in flight; a call for an id that is not in
\* the schedule runs nothing, leaves the history as it is and returns None
C29_RunJobNowReturnsOwnResult ==
    /\ [](\A r \in 1..Len(runs) :
             runs[r].caller = "run_job_now" =>
                 /\ runs[r].pc = "refused" <=> runs[r].job \notin ScheduledIds
                 /\ runs[r].pc = "refused" => runs[r].returned = Return(FALSE, 0)
                 /\ runs[r].pc = "backup" => runs[r].returned = NoReturn
                 /\ runs[r].pc \in {"returned", "raised"} =>
                        runs[r].returned = Return(TRUE, r))
    /\ [][/\ \A r \in C29_Returning :
                 /\ C29_Returning = {r}
                 /\ job_history' = C15_MostRecent(Append(job_history, r))
                 /\ runs'[r].returned = Return(TRUE, r)
          /\ \A r \in (Len(runs) + 1)..Len(runs') :
                 runs'[r].caller = "run_job_now" =>
                     /\ runs' = Append(runs, runs'[r])
                     /\ job_history' = job_history]_vars

\* a run_job_now call for job daily returned its own result although a run
\* of daily launched by the tick had finished before it, one for the
\* disabled job returned its own, and the history held earlier results
C29_Witness ==
    /\ \E r, t \in 1..Len(runs) :
           /\ runs[r].caller = "run_job_now" /\ runs[r].job = "daily"
           /\ runs[r].returned = Return(TRUE, r)
           /\ runs[t].caller = "tick" /\ runs[t].job = "daily"
           /\ runs[t].pc = "returned"
           /\ job_history[Len(job_history)] = r
           /\ job_history[Len(job_history) - 1] = t
    /\ Len(job_history) = max_history

\* the runs a step launches from a tick
C30_Launched ==
    {r \in (Len(runs) + 1)..Len(runs') : runs'[r].caller = "tick"}

\* C30: there is one live loop task exactly while the scheduler is running;
\* start() while running and stop() while not running change nothing; only
\* the live loop task evaluates jobs, and a step in which a cancelled loop
\* task resumes evaluates nothing and launches nothing, also when the
\* scheduler has been started again in between
C30_OneLoopEvaluates ==
    /\ [](running <=> loop \in {"ready", "sleeping"})
    /\ [](unwinding > 0 => ENABLED LoopUnwinds)
    /\ [][/\ (clock' # clock \/ due' # due \/ C30_Launched # {}) =>
               /\ running
               /\ loop \in {"ready", "sleeping"}
               /\ loop' = "sleeping"
               /\ unwinding' = unwinding
          /\ unwinding' < unwinding =>
               UNCHANGED <<clock, due, runs, job_history, running>>
          /\ (running /\ running') =>
               (loop' = "ready" => loop = "ready")
          /\ (~running /\ ~running') =>
               (loop' = loop /\ unwinding' <= unwinding)]_vars

\* start() was called again before the loop task cancelled by stop() has
\* resumed, at a time at which a job is due
C30_Witness ==
    /\ running
    /\ loop = "ready"
    /\ unwinding = 1
    /\ \E j \in scheduled_jobs : j.enabled /\ _should_run_job(j, clock)

\* the plain-SQL restores
C21_SqlRestores == {"_restore_sql_format", "_restore_from_compressed_sql"}

C25_DumpNeverBlocked ==
    ~(/\ io.scenario = "create_backup"
      /\ io.tool = "running"
      /\ io.out_todo > 0
      /\ Write(io.out, FALSE) = "blocked"
      /\ io.waiter = "monitoring"
      /\ io.file = 0)

\* C26: in a custom-format backup or restore the tool is never blocked on a
\* full pipe while the monitor loop waits for its exit and the event loop
\* has stopped reading the pipe
C26_ToolNeverBlocked ==
    ~(/\ io.scenario \in Monitored
      /\ io.tool = "running"
      /\ io.out_todo > 0
      /\ Write(io.out, FALSE) = "blocked"
      /\ io.paused
      /\ io.waiter = "monitoring")

\* the value a key has from the defaults and the file
C22_FromFile(key) ==
    IF conf.file[key] # None THEN conf.file[key]
    ELSE _get_default_config(conf.program)[key]

\* C22: in a loaded configuration every mapped key whose environment
\* variable is set holds the environment's value, coerced by the rule of
\* the key (a string as given, a bool that is true exactly for true, yes,
\* 1, on in any case, an int, or the value from the file and the defaults
\* when the int does not parse); a key whose variable is not set holds the
\* value from the file, or the default
C22_EnvironmentWins ==
    conf.config # <<>> =>
        \A key \in env_mappings :
            conf.config[key] =
                CASE conf.environ[key] = None -> C22_FromFile(key)
                  [] conf.environ[key] # None /\ key = "log_level" ->
                         conf.environ[key]
                  [] conf.environ[key] # None /\ key = "verify_backups" ->
                         Value("bool", Truthy(conf.environ[key].v))
                  [] OTHER ->
                         IF int(conf.environ[key].v) = None
                         THEN C22_FromFile(key)
                         ELSE int(conf.environ[key].v)

====
